---- MODULE Spec2Model ----
(***************************************************************************)
(* Model of the Telegram email-check bot (src/bot.py) and of its two       *)
(* classification services (the FastAPI app inside src/bot.py and the      *)
(* stand-alone one in src/main.py).                                        *)
(*                                                                         *)
(* Python str values are TLA+ strings; Len, SubSeq and \o act on them as   *)
(* on Python strings.  A Python dict is the sequence of its <<key, value>> *)
(* pairs in insertion order.  Optional values (os.getenv, headers.get) are *)
(* None == <<>> or <<value>>.  The source's non-ASCII glyphs are written   *)
(* as bracketed ASCII tags ([warn], [ok], [shield], [?], ...) and the en   *)
(* dash of format_results as " - ".                                        *)
(***************************************************************************)
EXTENDS Integers, Sequences, FiniteSets, TLC

VARIABLES
    phase,              \* position of bot.py's __main__ block
    envToken,           \* os.getenv("TELEGRAM_BOT_TOKEN") of the bot process
    envKey,             \* os.getenv("API_KEY") of the bot process
    svcEnvKey,          \* os.getenv("API_KEY") of the process serving port 8000
    service,            \* which app answers on 127.0.0.1:8000: "bot" or "main"
    user_check_state,   \* bot.py's dict user_id -> bool
    pc,                 \* "idle", or the outbound call the event loop waits in
    last                \* the last operation performed and what it produced

vars == <<phase, envToken, envKey, svcEnvKey, service, user_check_state, pc, last>>

(***************************************************************************)
(* Bounds of the model.                                                    *)
(***************************************************************************)
MaxTextLen == 2
MaxEmails == 2

\* Telegram user ids: two users are what a claim about one user's effect on
\* another needs
Users == {1, 2}

None == <<>>
Some(v) == <<v>>

(***************************************************************************)
(* Python string primitives.                                               *)
(***************************************************************************)
\* needle in hay
Contains(hay, needle) ==
    \E i \in 1..(Len(hay) - Len(needle) + 1) :
        SubSeq(hay, i, i + Len(needle) - 1) = needle

\* the characters str.strip() removes that occur in the model's alphabet
IsSpace(c) == c \in {" ", "\t", "\n", "\r"}

\* the characters str.splitlines() breaks at that occur in the model's alphabet
IsLineBreak(c) == c \in {"\n", "\r"}

RECURSIVE LStrip(_)
LStrip(s) ==
    IF Len(s) > 0 /\ IsSpace(SubSeq(s, 1, 1))
    THEN LStrip(SubSeq(s, 2, Len(s)))
    ELSE s

RECURSIVE RStrip(_)
RStrip(s) ==
    IF Len(s) > 0 /\ IsSpace(SubSeq(s, Len(s), Len(s)))
    THEN RStrip(SubSeq(s, 1, Len(s) - 1))
    ELSE s

Strip(s) == LStrip(RStrip(s))

UPPERCASE == "ABCDEFGHIJKLMNOPQRSTUVWXYZ"
LOWERCASE == "abcdefghijklmnopqrstuvwxyz"

\* str.lower() of one character (ASCII letters)
LowerChar(c) ==
    IF \E i \in 1..Len(UPPERCASE) : SubSeq(UPPERCASE, i, i) = c
    THEN LET i == CHOOSE i \in 1..Len(UPPERCASE) : SubSeq(UPPERCASE, i, i) = c
         IN  SubSeq(LOWERCASE, i, i)
    ELSE c

RECURSIVE Lower(_)
Lower(s) ==
    IF Len(s) = 0 THEN ""
    ELSE LowerChar(SubSeq(s, 1, 1)) \o Lower(SubSeq(s, 2, Len(s)))

\* text.replace(",", "\n")
RECURSIVE ReplaceCommas(_)
ReplaceCommas(s) ==
    IF Len(s) = 0 THEN ""
    ELSE (IF SubSeq(s, 1, 1) = "," THEN "\n" ELSE SubSeq(s, 1, 1))
         \o ReplaceCommas(SubSeq(s, 2, Len(s)))

\* the set of lines of text.splitlines(); empty pieces between two breaks
\* are kept, as in Python ("\r\n" alone differs: one break there, an
\* empty line here, which no caller keeps)
RECURSIVE SplitLines(_, _)
SplitLines(s, cur) ==
    IF Len(s) = 0 THEN (IF cur = "" THEN {} ELSE {cur})
    ELSE IF IsLineBreak(SubSeq(s, 1, 1))
         THEN {cur} \cup SplitLines(SubSeq(s, 2, Len(s)), "")
         ELSE SplitLines(SubSeq(s, 2, Len(s)), cur \o SubSeq(s, 1, 1))

\* "\n".join(lines)
RECURSIVE JoinLines(_)
JoinLines(lines) ==
    IF Len(lines) = 0 THEN ""
    ELSE IF Len(lines) = 1 THEN lines[1]
    ELSE lines[1] \o "\n" \o JoinLines(Tail(lines))

\* str(n) for the small counts the bot prints
IntStr(n) ==
    CASE n = 0 -> "0" [] n = 1 -> "1" [] n = 2 -> "2" [] n = 3 -> "3"
      [] n = 4 -> "4" [] n = 5 -> "5" [] OTHER -> "many"

(***************************************************************************)
(* Python dict primitives.                                                 *)
(***************************************************************************)
Keys(d) == {d[i][1] : i \in 1..Len(d)}

\* d[k] = v: an existing key keeps its place, a new key goes last
DictSet(d, k, v) ==
    IF k \in Keys(d)
    THEN [i \in 1..Len(d) |-> IF d[i][1] = k THEN <<k, v>> ELSE d[i]]
    ELSE Append(d, <<k, v>>)

\* d.get(k, default)
DictGet(d, k, default) ==
    IF k \in Keys(d)
    THEN (CHOOSE p \in {d[i] : i \in 1..Len(d)} : p[1] = k)[2]
    ELSE default

\* the orders list(set) may produce: every enumeration of S
ListsOf(S) ==
    {q \in [1..Cardinality(S) -> S] : \A i, j \in 1..Cardinality(S) : q[i] = q[j] => i = j}

(***************************************************************************)
(* Configuration: module-level constants of bot.py and main.py.            *)
(***************************************************************************)
DEFAULT_BOT_TOKEN == "your_telegram_bot_token"
DEFAULT_API_KEY == "my_secure_api_key_123"

\* os.getenv(name) or default: None and "" are both falsy
GetenvOr(env, default) ==
    IF env = None \/ env[1] = "" THEN default ELSE env[1]

\* bot.py line 18
TELEGRAM_BOT_TOKEN == GetenvOr(envToken, DEFAULT_BOT_TOKEN)

\* bot.py line 19
API_KEY == GetenvOr(envKey, DEFAULT_API_KEY)

\* the API_KEY global of the process that serves port 8000: bot.py's own
\* backend thread shares bot.py's global, main.py reads its own environment
SERVICE_API_KEY ==
    IF service = "bot" THEN API_KEY ELSE GetenvOr(svcEnvKey, DEFAULT_API_KEY)

\* main.py's SIMULATED_DATABASE
SIMULATED_DATABASE ==
    << <<"active@example.com", "yes">>,
       <<"flagged@example.com", "no">>,
       <<"blocked@example.com", "captcha">>,
       <<"error@example.com", "error">> >>

(***************************************************************************)
(* Classification Service.  A request is its x-api-key header (None when   *)
(* absent) and its payload [valid, emails]: valid says that the JSON body  *)
(* holds a list of strings under "emails" (emails), and is FALSE for a     *)
(* body such as {"emails": 5}.  A response is [status, json, body]: body   *)
(* is the JSON object sent, as a dict, and json is FALSE for a body that   *)
(* is not JSON.                                                            *)
(***************************************************************************)
Response(status, body) == [status |-> status, json |-> TRUE, body |-> body]

\* bot.py's substring rule for one email
ClassifyBot(email) ==
    IF Contains(email, "flag") THEN "yes"
    ELSE IF Contains(email, "active") THEN "no"
    ELSE "error"

\* main.py's dictionary rule for one email
ClassifyMain(email) == DictGet(SIMULATED_DATABASE, Lower(email), "no")

\* the loop of bot.py's check_emails over emails, from results
RECURSIVE ResultsBot(_, _)
ResultsBot(emails, results) ==
    IF Len(emails) = 0 THEN results
    ELSE ResultsBot(Tail(emails),
                    DictSet(results, Head(emails), ClassifyBot(Head(emails))))

\* faulty variant of ResultsMain: the lowercased email is the key as well
RECURSIVE ResultsMainLowered(_, _)
ResultsMainLowered(emails, results) ==
    IF Len(emails) = 0 THEN results
    ELSE ResultsMainLowered(Tail(emails),
                            DictSet(results, Lower(Head(emails)),
                                    ClassifyMain(Head(emails))))

\* the loop of main.py's check_emails over emails, from results
RECURSIVE ResultsMain(_, _)
ResultsMain(emails, results) ==
    IF Len(emails) = 0 THEN results
    ELSE ResultsMain(Tail(emails),
                     DictSet(results, Head(emails), ClassifyMain(Head(emails))))

\* bot.py's POST /check_emails: the key is compared first; the loop raises
\* TypeError on "emails" that cannot be iterated, which the framework
\* answers with 500 and a plain-text body
check_emails_bot(key, header, payload) ==
    IF header # Some(key)
    THEN Response(401, << <<"error", "Unauthorized">> >>)
    ELSE IF ~payload.valid
    THEN [status |-> 500, json |-> FALSE, body |-> <<>>]
    ELSE Response(200, ResultsBot(payload.emails, <<>>))

\* main.py's POST /check_emails: the framework validates the body against
\* EmailCheckRequest before it calls the function, and answers 422 itself
check_emails_main(key, header, payload) ==
    IF ~payload.valid
    THEN Response(422, << <<"detail", "validation error">> >>)
    ELSE IF header # Some(key)
    THEN Response(403, << <<"detail", "Invalid API key">> >>)
    ELSE Response(200, ResultsMain(payload.emails, <<>>))

\* GET /status of either app
status_endpoint == Response(200, << <<"status", "ok">> >>)

(***************************************************************************)
(* Front End helpers.                                                      *)
(***************************************************************************)
\* parse_emails before list(): the set comprehension
parse_emails(text) ==
    {Strip(line) : line \in {l \in SplitLines(ReplaceCommas(text), "") :
                                 Contains(l, "@") /\ Contains(l, ".")}}

\* faulty variant of StatusText: the texts of "yes" and "no" exchanged
StatusTextSwapped(status) ==
    DictGet(<< <<"yes", "[ok] Active">>,
               <<"no", "[warn] Flagged">>,
               <<"captcha", "[shield] CAPTCHA blocked">>,
               <<"error", "[?] Unknown or Error">> >>,
            status, "[?] Unknown")

\* status_map.get(status, default) of format_results
StatusText(status) ==
    DictGet(<< <<"yes", "[warn] Flagged">>,
               <<"no", "[ok] Active">>,
               <<"captcha", "[shield] CAPTCHA blocked">>,
               <<"error", "[?] Unknown or Error">> >>,
            status, "[?] Unknown")

\* format_results: one line per item of results, in the dict's order
format_results(results) ==
    JoinLines([i \in 1..Len(results) |->
                  StatusText(results[i][2]) \o " - " \o results[i][1]])

(***************************************************************************)
(* user_check_state: a function from the users that have an entry to       *)
(* BOOLEAN.                                                                *)
(***************************************************************************)
\* user_check_state.get(user_id): None when there is no entry
state_get(s, u) == IF u \in DOMAIN s THEN Some(s[u]) ELSE None

\* faulty variant of SetItem: one flag for everybody who has an entry
SetItemAll(s, u, v) == [x \in (DOMAIN s) \cup {u} |-> v]

\* user_check_state[user_id] = v
SetItem(s, u, v) == [x \in (DOMAIN s) \cup {u} |-> IF x = u THEN v ELSE s[x]]

\* faulty variant of Pop: the entry is set to False instead of removed
PopAsFalse(s, u) == [x \in (DOMAIN s) \cup {u} |-> IF x = u THEN FALSE ELSE s[x]]

\* user_check_state.pop(user_id, None)
Pop(s, u) == [x \in (DOMAIN s) \ {u} |-> s[x]]

\* faulty variant of Gate: any entry opens the gate
GateAnyEntry(s, u) == u \in DOMAIN s

\* the gate of handle_message: "not user_check_state.get(user_id)" is false
Gate(s, u) == state_get(s, u) = Some(TRUE)

(***************************************************************************)
(* Replies of the bot.                                                     *)
(***************************************************************************)
MSG_MENU == "[party] Hello! I'm your PayPal email verification bot."
MSG_PROMPT == "[mail] Please send the email(s) you want to check."
MSG_HELP == "[info] *How to use this bot:*"
MSG_CANCELED == "[x] Email check canceled."
MSG_UP == "[ok] Backend is up and running!"
MSG_BACKEND_ERROR == "[warn] Backend returned an error."
MSG_UNREACHABLE == "[x] Could not reach backend."
MSG_GUIDANCE == "[!] Please press '[ok] Start Email Check' first."
MSG_INVALID == "[warn] Please send valid email addresses."
MsgChecking(n) == "[search] Checking " \o IntStr(n) \o " emails..."
MsgError(detail) == "[warn] Error: " \o detail

(***************************************************************************)
(* The network between the bot and port 8000.  An outbound call either     *)
(* gets the service's answer, is refused (requests raises ConnectionError),*)
(* gets a 200 or a 502 with a body that is not JSON from whatever else     *)
(* answers on the port, or gets no answer at all.                          *)
(***************************************************************************)
NetOutcomes == {"answer", "refused", "garbled", "badgateway", "hang"}

\* POST /check_emails as served on port 8000
ServePost(header, payload) ==
    IF service = "bot"
    THEN check_emails_bot(SERVICE_API_KEY, header, payload)
    ELSE check_emails_main(SERVICE_API_KEY, header, payload)

\* what requests returns for an outbound call that returns: a response, or
\* raised = TRUE with the exception's text
Received(net, answer) ==
    CASE net = "answer" -> [raised |-> FALSE, detail |-> "", resp |-> answer]
      [] net = "garbled" ->
            [raised |-> FALSE, detail |-> "",
             resp |-> [status |-> 200, json |-> FALSE, body |-> <<>>]]
      [] net = "badgateway" ->
            [raised |-> FALSE, detail |-> "",
             resp |-> [status |-> 502, json |-> FALSE, body |-> <<>>]]
      [] OTHER ->
            [raised |-> TRUE, detail |-> "Connection refused",
             resp |-> [status |-> 0, json |-> FALSE, body |-> <<>>]]

\* response.raise_for_status(): the text of the HTTPError, "" when none
RaiseForStatus(status) ==
    CASE status = 401 -> "401 Client Error: Unauthorized"
      [] status = 403 -> "403 Client Error: Forbidden"
      [] status = 422 -> "422 Client Error: Unprocessable Entity"
      [] status = 500 -> "500 Server Error: Internal Server Error"
      [] status = 502 -> "502 Server Error: Bad Gateway"
      [] OTHER -> ""

(***************************************************************************)
(* handle_message, branch by branch.  Each branch gives the dict after it, *)
(* the replies sent, whether the service was called, and where the event   *)
(* loop is afterwards.                                                     *)
(***************************************************************************)
\* lines 130-132: the session gate is closed
GuidanceBranch(s, u) ==
    [state |-> s, replies |-> <<MSG_GUIDANCE>>, called |-> FALSE,
     outcome |-> "guidance", pc |-> "idle"]

\* faulty variant of InvalidBranch: the early return inside the try, so that
\* the finally clause closes the session
InvalidBranchResets(s, u) ==
    [state |-> [x \in (DOMAIN s) \cup {u} |-> IF x = u THEN FALSE ELSE s[x]],
     replies |-> <<MSG_INVALID>>, called |-> FALSE,
     outcome |-> "invalid", pc |-> "idle"]

\* lines 135-137: no candidate email in the text
InvalidBranch(s, u) ==
    [state |-> s, replies |-> <<MSG_INVALID>>, called |-> FALSE,
     outcome |-> "invalid", pc |-> "idle"]

\* faulty variant of ResetAfterCheck: the reset at the end of the try body
\* instead of in a finally clause
ResetOnSuccessOnly(s, u, failed) == IF failed THEN s ELSE SetItem(s, u, FALSE)

\* lines 153-154: the finally clause, run whether or not the try body raised
ResetAfterCheck(s, u, failed) == SetItem(s, u, FALSE)

\* lines 142-152: the try body and its except clause, for a call that
\* returns: the text of the exception caught, "" when none was raised
CheckFailure(r) ==
    IF r.raised THEN r.detail
    ELSE IF RaiseForStatus(r.resp.status) # "" THEN RaiseForStatus(r.resp.status)
    ELSE IF ~r.resp.json THEN "Expecting value: line 1 column 1 (char 0)"
    ELSE ""

\* lines 139-154: the call and what follows it.  requests.post is given no
\* timeout, so with no answer the handler stays inside the call
CallBranch(s, u, emails, net) ==
    IF net = "hang"
    THEN [state |-> s, replies |-> <<MsgChecking(Len(emails))>>, called |-> TRUE,
          outcome |-> "waiting", pc |-> "post"]
    ELSE LET r == Received(net, ServePost(Some(API_KEY),
                                          [valid |-> TRUE, emails |-> emails]))
             failure == CheckFailure(r)
         IN  [state |-> ResetAfterCheck(s, u, failure # ""),
              replies |-> <<MsgChecking(Len(emails)),
                            IF failure # "" THEN MsgError(failure)
                            ELSE format_results(r.resp.body)>>,
              called |-> TRUE,
              outcome |-> IF failure # "" THEN "error" ELSE "ok",
              pc |-> "idle"]

\* handle_message as a whole, for the order list(set) gave and the network's
\* behaviour
handle_message_result(s, u, emails, net) ==
    IF ~Gate(s, u) THEN GuidanceBranch(s, u)
    ELSE IF emails = <<>> THEN InvalidBranch(s, u)
    ELSE CallBranch(s, u, emails, net)

(***************************************************************************)
(* Inputs.                                                                 *)
(***************************************************************************)
Alphabet == {"@", ".", ","}

RECURSIVE StringsUpTo(_)
StringsUpTo(n) ==
    IF n = 0 THEN {""}
    ELSE LET S == StringsUpTo(n - 1) IN S \cup {t \o c : t \in S, c \in Alphabet}

SampleTexts ==
    {"hello",
     "flag@x.com,active@x.com",
     " Active@Example.com \nblocked@example.com",
     "who@x.com, who@x.com",
     "a@b\nc.d"}

Texts == StringsUpTo(MaxTextLen) \cup SampleTexts

EnvTokens == {None, Some(""), Some("123456:ABC-DEF")}
EnvKeys == {None, Some("k1")}

\* the user's session flag as the spec names it
FlagIn(s, u) ==
    IF u \notin DOMAIN s THEN "absent" ELSE IF s[u] THEN "true" ELSE "false"

FlagOf(u) == FlagIn(user_check_state, u)

\* the record of an operation: who asked what, the flag it found, whether
\* the service was called, how it ended and what it replied
NoOp ==
    [op |-> "none", user |-> 0, text |-> "", before |-> "absent",
     called |-> FALSE, outcome |-> "none", replies |-> <<>>]

Done(op, u, text, called, outcome, replies) ==
    [op |-> op, user |-> u, text |-> text, before |-> FlagOf(u),
     called |-> called, outcome |-> outcome, replies |-> replies]

(***************************************************************************)
(* The bot process.                                                        *)
(***************************************************************************)
Init ==
    /\ phase = "boot"
    /\ envToken \in EnvTokens
    /\ envKey \in EnvKeys
    /\ service \in {"bot", "main"}
    /\ svcEnvKey = IF service = "bot" THEN envKey ELSE None
    /\ user_check_state = [x \in {} |-> FALSE]
    /\ pc = "idle"
    /\ last = NoOp

\* lines 171-185: the backend thread is started, the token is tested, the
\* application is built and polls
Main ==
    /\ phase = "boot"
    /\ phase' = IF TELEGRAM_BOT_TOKEN = "" THEN "exited" ELSE "polling"
    /\ last' = IF TELEGRAM_BOT_TOKEN = ""
               THEN Done("main", 0, "", FALSE, "exit", <<"[x] TELEGRAM_BOT_TOKEN is missing.">>)
               ELSE Done("main", 0, "", FALSE, "polling", <<"[robot] Bot is running...">>)
    /\ UNCHANGED <<envToken, envKey, svcEnvKey, service, user_check_state, pc>>

\* the application dispatches one update at a time, and only while no
\* handler is inside a blocking call
Dispatching == phase = "polling" /\ pc = "idle"

start(u) ==
    /\ Dispatching
    /\ last' = Done("start", u, "", FALSE, "replied", <<MSG_MENU>>)
    /\ UNCHANGED <<phase, envToken, envKey, svcEnvKey, service, user_check_state, pc>>

check_command(u) ==
    /\ Dispatching
    /\ user_check_state' = SetItem(user_check_state, u, TRUE)
    /\ last' = Done("check", u, "", FALSE, "replied", <<MSG_PROMPT>>)
    /\ UNCHANGED <<phase, envToken, envKey, svcEnvKey, service, pc>>

help_command(u) ==
    /\ Dispatching
    /\ last' = Done("help", u, "", FALSE, "replied", <<MSG_HELP>>)
    /\ UNCHANGED <<phase, envToken, envKey, svcEnvKey, service, user_check_state, pc>>

cancel_command(u) ==
    /\ Dispatching
    /\ user_check_state' = Pop(user_check_state, u)
    /\ last' = Done("cancel", u, "", FALSE, "replied", <<MSG_CANCELED>>)
    /\ UNCHANGED <<phase, envToken, envKey, svcEnvKey, service, pc>>

\* requests.get is given no timeout either
status_command(u) ==
    /\ Dispatching
    /\ \E net \in NetOutcomes :
          IF net = "hang"
          THEN /\ pc' = "get"
               /\ last' = Done("status", u, "", TRUE, "waiting", <<>>)
          ELSE LET r == Received(net, status_endpoint)
               IN  /\ pc' = "idle"
                   /\ last' = Done("status", u, "", TRUE, "replied",
                                   <<IF r.raised THEN MSG_UNREACHABLE
                                     ELSE IF r.resp.status = 200 THEN MSG_UP
                                     ELSE MSG_BACKEND_ERROR>>)
    /\ UNCHANGED <<phase, envToken, envKey, svcEnvKey, service, user_check_state>>

button_handler(u, data) ==
    \/ data = "check" /\ check_command(u)
    \/ data = "help" /\ help_command(u)
    \/ data = "cancel" /\ cancel_command(u)
    \/ data = "status" /\ status_command(u)

\* parse_emails on every text of the model, computed once
ParsedTexts == [t \in Texts |-> parse_emails(t)]

handle_message(u, text) ==
    /\ Dispatching
    /\ LET \* line 134 is reached only through the gate
           candidates == IF Gate(user_check_state, u) THEN ParsedTexts[text] ELSE {}
           \* the network's behaviour matters only when the call is made
           nets == IF candidates # {} THEN NetOutcomes ELSE {"answer"}
       IN  \E emails \in ListsOf(candidates), net \in nets :
              LET r == handle_message_result(user_check_state, u, emails, net)
              IN  /\ user_check_state' = r.state
                  /\ pc' = r.pc
                  /\ last' = Done("handle_message", u, text, r.called, r.outcome, r.replies)
    /\ UNCHANGED <<phase, envToken, envKey, svcEnvKey, service>>

Next ==
    \/ Main
    \/ \E u \in Users : start(u)
    \/ \E u \in Users, data \in {"check", "help", "cancel", "status"} : button_handler(u, data)
    \/ \E u \in Users, text \in Texts : handle_message(u, text)

Spec == Init /\ [][Next]_vars

\* the event loop runs a handler whenever an update is there to dispatch
FairSpec == Spec /\ WF_vars(Next)

(***************************************************************************)
(* The Classification Service on its own: any client, any request.         *)
(***************************************************************************)
Headers == {None, Some(""), Some(DEFAULT_API_KEY), Some("k1"), Some("K1")}

EmailPool ==
    {"flag@x.com", "active@x.com", "Active@Example.com", "active@example.com",
     "blocked@example.com", "who@x.com"}

EmailLists == UNION {[1..n -> EmailPool] : n \in 0..MaxEmails}

Payloads ==
    {[valid |-> FALSE, emails |-> <<>>]}
        \cup {[valid |-> TRUE, emails |-> l] : l \in EmailLists}

NoRequest ==
    [op |-> "none", route |-> "", header |-> None,
     payload |-> [valid |-> TRUE, emails |-> <<>>],
     resp |-> [status |-> 0, json |-> FALSE, body |-> <<>>]]

ServiceInit ==
    /\ phase = "serving"
    /\ envToken = None
    /\ envKey \in EnvKeys
    /\ service \in {"bot", "main"}
    /\ svcEnvKey \in EnvKeys
    /\ service = "bot" => svcEnvKey = envKey
    /\ user_check_state = [x \in {} |-> FALSE]
    /\ pc = "idle"
    /\ last = NoRequest

\* a client sends one request at a time; the service keeps nothing from
\* one request to the next
client_request(route, header, payload) ==
    /\ last.op = "none"
    /\ last' = [op |-> "pending", route |-> route, header |-> header,
                payload |-> payload, resp |-> NoRequest.resp]
    /\ UNCHANGED <<phase, envToken, envKey, svcEnvKey, service, user_check_state, pc>>

post_check_emails ==
    /\ last.op = "pending" /\ last.route = "check_emails"
    /\ last' = [last EXCEPT !.op = "check_emails",
                            !.resp = ServePost(last.header, last.payload)]
    /\ UNCHANGED <<phase, envToken, envKey, svcEnvKey, service, user_check_state, pc>>

get_status ==
    /\ last.op = "pending" /\ last.route = "status"
    /\ last' = [last EXCEPT !.op = "status", !.resp = status_endpoint]
    /\ UNCHANGED <<phase, envToken, envKey, svcEnvKey, service, user_check_state, pc>>

response_sent ==
    /\ last.op \in {"check_emails", "status"}
    /\ last' = NoRequest
    /\ UNCHANGED <<phase, envToken, envKey, svcEnvKey, service, user_check_state, pc>>

ServiceNext ==
    \/ \E header \in Headers, payload \in Payloads :
          client_request("check_emails", header, payload)
    \/ \E header \in Headers : client_request("status", header, NoRequest.payload)
    \/ post_check_emails
    \/ get_status
    \/ response_sent

SpecService == ServiceInit /\ [][ServiceNext]_vars

(***************************************************************************)
(* format_results on its own: any dict of at most MaxEmails items.         *)
(***************************************************************************)
FormatEmails == {"a@b.c", "flag@x.com", "who@x.com"}
Statuses == {"yes", "no", "captcha", "error", "pending", "YES"}

ResultDicts ==
    UNION {{d \in [1..n -> FormatEmails \X Statuses] :
                \A i, j \in 1..n : d[i][1] = d[j][1] => i = j} : n \in 0..MaxEmails}

FormatInit ==
    /\ phase = "formatting"
    /\ envToken = None
    /\ envKey = None
    /\ service = "bot"
    /\ svcEnvKey = None
    /\ user_check_state = [x \in {} |-> FALSE]
    /\ pc = "idle"
    /\ last = [op |-> "none", results |-> <<>>, rendered |-> ""]

render(results) ==
    /\ last' = [op |-> "format_results", results |-> results,
                rendered |-> format_results(results)]
    /\ UNCHANGED <<phase, envToken, envKey, svcEnvKey, service, user_check_state, pc>>

FormatNext == \E results \in ResultDicts : render(results)

SpecFormat == FormatInit /\ [][FormatNext]_vars

(***************************************************************************)
(* Properties.                                                             *)
(***************************************************************************)
Range(q) == {q[i] : i \in 1..Len(q)}

\* the lines of a rendered text: the pieces between its "\n"
RECURSIVE SplitAtNewlines(_)
SplitAtNewlines(t) ==
    LET breaks == {i \in 1..Len(t) : SubSeq(t, i, i) = "\n"}
    IN  IF breaks = {} THEN <<t>>
        ELSE LET first == CHOOSE i \in breaks : \A j \in breaks : i <= j
             IN  <<SubSeq(t, 1, first - 1)>> \o SplitAtNewlines(SubSeq(t, first + 1, Len(t)))

LinesOf(t) == IF t = "" THEN <<>> ELSE SplitAtNewlines(t)

\* a handle_message that made the call and came back from it
CheckFinished(l, p) == l.op = "handle_message" /\ l.called /\ p = "idle"

\* C1: a handle_message that passes the gate, extracts a non-empty batch and
\* calls the service leaves the user's flag false when it finishes, whatever
\* the call's outcome, and the same user's next text message, coming right
\* after it, gets the guidance reply only.
C1_CheckConsumesSession ==
    /\ [](CheckFinished(last, pc) => FlagOf(last.user) = "false")
    /\ [][(CheckFinished(last, pc) /\ last'.op = "handle_message"
                /\ last'.user = last.user)
            => (last'.replies = <<MSG_GUIDANCE>> /\ ~last'.called)]_vars

\* C1 witness: a check that the service of main.py refused with 403 has
\* finished, and the flag is false.
C1_Witness ==
    /\ CheckFinished(last, pc)
    /\ last.before = "true"
    /\ last.replies[2] = MsgError("403 Client Error: Forbidden")
    /\ FlagOf(last.user) = "false"

\* C2: a text message from a user whose flag is absent or false gets the
\* guidance reply only, calls nothing and leaves the whole session map as
\* it was (an absent entry stays absent, a false one false).
C2_NoSessionOnlyGuidance ==
    [][(last'.op = "handle_message" /\ FlagOf(last'.user) # "true")
        => (/\ last'.replies = <<MSG_GUIDANCE>>
            /\ ~last'.called
            /\ pc' = "idle"
            /\ user_check_state' = user_check_state)]_vars

\* C2 witness: a user with no entry sent two well-formed addresses and was
\* answered with the guidance; the user still has no entry.
C2_Witness ==
    /\ last.op = "handle_message"
    /\ last.text = "flag@x.com,active@x.com"
    /\ last.before = "absent"
    /\ last.replies = <<MSG_GUIDANCE>>
    /\ FlagOf(last.user) = "absent"

\* C3: with the flag true, a text that yields no candidate email gets the
\* validation error only, calls nothing and leaves the session map as it
\* was, the user's flag still true.
C3_EmptyBatchKeepsSession ==
    [][(/\ last'.op = "handle_message"
        /\ FlagOf(last'.user) = "true"
        /\ parse_emails(last'.text) = {})
        => (/\ last'.replies = <<MSG_INVALID>>
            /\ ~last'.called
            /\ pc' = "idle"
            /\ user_check_state' = user_check_state
            /\ FlagIn(user_check_state', last'.user) = "true")]_vars

\* C3 witness: "hello" was sent in an open session, and the session is
\* still open.
C3_Witness ==
    /\ last.op = "handle_message"
    /\ last.text = "hello"
    /\ last.before = "true"
    /\ last.outcome = "invalid"
    /\ FlagOf(last.user) = "true"

\* what an unauthorized answer is: 401 from bot.py's service, 403 from
\* main.py's, and a body with no label in it
Labels == {"yes", "no", "captcha", "error"}

Unauthorized(resp) ==
    /\ resp.status = (IF service = "bot" THEN 401 ELSE 403)
    /\ \A i \in 1..Len(resp.body) : resp.body[i][2] \notin Labels

\* C4: POST /check_emails with an x-api-key header that is missing or differs
\* from the configured secret is answered unauthorized (401 by bot.py, 403 by
\* main.py) with no email-to-label mapping, for any payload.
C4_BadKeyIsUnauthorized ==
    (last.op = "check_emails" /\ last.header # Some(SERVICE_API_KEY))
        => Unauthorized(last.resp)

\* C5: an authorized POST /check_emails with a list of emails returns a
\* mapping whose keys are the input strings exactly as submitted, each once,
\* under both strategies.
C5_KeysAreInputs ==
    (last.op = "check_emails" /\ last.header = Some(SERVICE_API_KEY)
        /\ last.payload.valid)
        => (/\ last.resp.status = 200
            /\ last.resp.json
            /\ Keys(last.resp.body) = Range(last.payload.emails)
            /\ Len(last.resp.body) = Cardinality(Range(last.payload.emails)))

\* C5 witness: main.py's service answered a list of two emails that differ
\* only in letter case.
C5_Witness ==
    /\ last.op = "check_emails"
    /\ service = "main"
    /\ last.header = Some(SERVICE_API_KEY)
    /\ last.payload.emails = <<"Active@Example.com", "active@example.com">>
    /\ last.resp.status = 200

\* C6: no Front End operation blocks indefinitely: a handler that is inside
\* an outbound call to the service eventually comes back from it, even when
\* the service never answers.
C6_NoIndefiniteBlocking == (pc # "idle") ~> (pc = "idle")

\* the label texts as the claim gives them
ClaimedLabel(status) ==
    CASE status = "yes" -> "[warn] Flagged"
      [] status = "no" -> "[ok] Active"
      [] status = "captcha" -> "[shield] CAPTCHA blocked"
      [] OTHER -> "[?] Unknown or Error"

\* the same, with the text of an unrecognized label
AmendedLabel(status) ==
    CASE status = "yes" -> "[warn] Flagged"
      [] status = "no" -> "[ok] Active"
      [] status = "captcha" -> "[shield] CAPTCHA blocked"
      [] status = "error" -> "[?] Unknown or Error"
      [] OTHER -> "[?] Unknown"

\* the rendered text has one line per item, in the dict's order, each the
\* label text, the dash and the email
RenderedWith(Label(_)) ==
    last.op = "format_results"
        => LET lines == LinesOf(last.rendered)
           IN  /\ Len(lines) = Len(last.results)
               /\ \A i \in 1..Len(lines) :
                     lines[i] = Label(last.results[i][2]) \o " - " \o last.results[i][1]

\* C7 as stated: one line per key, in the mapping's order, '<label text> -
\* <email>', every status other than yes, no and captcha shown as "Unknown
\* or Error".
C7_AsStated == RenderedWith(ClaimedLabel)

\* C7 amended: the same, except that a status that is none of yes, no,
\* captcha and error is shown as "Unknown".
C7_Amended == RenderedWith(AmendedLabel)

\* C7 witness: a dict with the error label and an unrecognized one has been
\* rendered.
C7_Witness ==
    /\ last.op = "format_results"
    /\ last.results = << <<"who@x.com", "pending">>, <<"a@b.c", "error">> >>
    /\ LinesOf(last.rendered)[1] = "[?] Unknown - who@x.com"

\* C8: cancel never leaves the user's flag true and always sends the
\* confirmation; for a user with no entry it changes nothing.
C8_CancelIsSafe ==
    [][last'.op = "cancel"
        => (/\ FlagIn(user_check_state', last'.user) # "true"
            /\ last'.replies = <<MSG_CANCELED>>
            /\ pc' = "idle"
            /\ (FlagOf(last'.user) = "absent" => user_check_state' = user_check_state))]_vars

\* C8 witness: cancel came from a user with no entry while another user's
\* session was open.
C8_Witness ==
    /\ last.op = "cancel"
    /\ last.before = "absent"
    /\ FlagOf(last.user) = "absent"
    /\ \E v \in Users : FlagOf(v) = "true"

\* C9: with no bot token in the environment, startup never reaches the
\* point where the bot is built and polling.
C9_MissingTokenIsFatal ==
    (envToken = None \/ envToken = Some("")) => phase # "polling"

\* C10: an operation for one user leaves every other user's flag as it was
\* (absent, false or true), and start, help and status change no flag.
C10_SessionsIsolated ==
    [][/\ \A v \in Users : v # last'.user => FlagIn(user_check_state', v) = FlagOf(v)
       /\ last'.op \in {"start", "help", "status"}
             => user_check_state' = user_check_state]_vars

\* C10 witness: user 1's check has run and closed user 1's session while
\* user 2's session is open.
C10_Witness ==
    /\ CheckFinished(last, pc)
    /\ last.user = 1
    /\ last.outcome = "ok"
    /\ FlagOf(1) = "false"
    /\ FlagOf(2) = "true"

====
